---- MODULE Spec2Model ----
(***************************************************************************)
(* PWM fading blinky (src/blinky/src/main.c): main() checks that the four  *)
(* PWM LED devices are ready, zeroes every channel, then cycles forever    *)
(* fade-in -> hold -> fade-out -> advance over the channels.               *)
(*                                                                         *)
(* The PWM driver (pwm_set_dt, device_is_ready) and k_msleep are the       *)
(* platform: a duty-cycle write either commits the pulse width to the      *)
(* channel and returns 0, or returns a negative value and changes nothing. *)
(* All arithmetic of the program stays far below 2^31, the range in which  *)
(* the uint32 arithmetic of the C code and the integers used here agree.   *)
(***************************************************************************)
EXTENDS Integers, Sequences, FiniteSets, TLC

\* ---- program constants ------------------------------------------------
PWM_PERIOD_US == 1000
FADE_STEP_MS == 10
FADE_STEPS == 100
NUM_LEDS == 4
HOLD_MS == 200
PAUSE_MS == 100
\* largest value of set_led_brightness's uint8_t parameter
UINT8_MAX == 255
\* brightness is a percentage: set_led_brightness divides by 100
PERCENT == 100

\* ---- bounds of the model ----------------------------------------------
\* the driver may reject a fade write at any step 0..MaxFailStep of a ramp
MaxFailStep == 2
\* other configurations of the ramp: periods 1..MaxPeriod, 1..MaxSteps steps
MaxPeriod == 3
MaxSteps == 3

Leds == 0 .. (NUM_LEDS - 1)
Periods == (1 .. MaxPeriod) \cup {PWM_PERIOD_US}
StepCounts == (1 .. MaxSteps) \cup {FADE_STEPS}

VARIABLES
  period,       \* PWM_PERIOD_US of the build
  fade_steps,   \* FADE_STEPS of the build
  ready,        \* device_is_ready(pwm_leds[c]->dev), fixed at startup
  duty,         \* pulse width currently committed on each channel
  pc,           \* position of the single thread of control
  i,            \* loop index of the readiness loop / turn_off_all_leds
  current_led,  \* main's current_led
  led_spec,     \* fade_led's channel argument (index into pwm_leds)
  fade_in,      \* fade_led's direction argument
  step,         \* fade_led's loop variable
  console,      \* last line printed with printk
  main_ret,     \* values main has returned ({} while it runs)
  fade_ret,     \* values the last fade_led call handed to its caller
  slept,        \* duration of the last k_msleep (0 before the first)
  last_write,   \* the most recent pwm_set_dt call
  call_writes,  \* pwm_set_dt calls issued by the current/last fade_led call
  call_sleeps,  \* k_msleep(FADE_STEP_MS) calls of the current/last fade_led call
  call_failed,  \* a write of the current/last fade_led call failed
  fade_failed,  \* some fade write has failed since startup
  cyc,          \* cycles completed in the current round of NUM_LEDS cycles
  ramped,       \* per channel: cycles completed on it in the current round
  brightness,   \* set_led_brightness's brightness argument (uint8_t)
  off_failed,   \* a write of turn_off_all_leds has failed
  delayed,      \* a k_msleep has run since the last pwm_set_dt call
  call_trace,   \* pulse widths passed to pwm_set_dt by the current/last fade_led call
  in_trace      \* call_trace of the fade-in of the cycle, kept during its fade-out

vars == << period, fade_steps, ready, duty, pc, i, current_led, led_spec,
           fade_in, step, console, main_ret, fade_ret, slept, last_write,
           call_writes, call_sleeps, call_failed, fade_failed, cyc, ramped,
           brightness, off_failed, delayed, call_trace, in_trace >>

cfgvars == << period, fade_steps, ready, brightness >>
histvars == << cyc, ramped >>
callvars == << led_spec, fade_in, step, fade_ret, call_writes, call_sleeps,
               call_failed, call_trace >>

NoWrite == [site |-> "none", ch |-> 0, period |-> 0, pulse |-> 0, ret |-> 0,
            step |-> 0, fade_in |-> FALSE]

\* ---- fade_led: pulse width of one step ---------------------------------
\* wrong variants of the computation, used to test the properties below
fade_pulse_width_divfirst(P, S, st, fin) ==
  IF fin THEN (P \div S) * st ELSE (P \div S) * (S - st)

fade_pulse_width_swapped(P, S, st, fin) ==
  IF fin THEN (P * (S - st)) \div S ELSE (P * st) \div S

fade_pulse_width_offbyone(P, S, st, fin) ==
  IF fin THEN (P * (st + 1)) \div S ELSE (P * (S - st)) \div S

fade_pulse_width_samples(P, S, st, fin) ==
  IF fin THEN (P * st) \div (S + 1) ELSE (P * (S + 1 - st)) \div (S + 1)

fade_pulse_width_outround(P, S, st, fin) ==
  IF fin THEN (P * st) \div S ELSE P - ((P * st) \div S)

fade_pulse_width(P, S, st, fin) ==
  IF fin THEN (P * st) \div S ELSE (P * (S - st)) \div S

\* wrong variant: the loop stops one step early
fade_loop_cond_lt(st, S) == st < S

\* wrong variant: the loop runs one step too far
fade_loop_cond_over(st, S) == st <= S + 1

\* for (...; step <= FADE_STEPS; ...)
fade_loop_cond(st, S) == st <= S

\* ---- the driver --------------------------------------------------------
\* pwm_set_dt(pwm_leds[ch], P, pw) returning ret: commit on success only
pwm_set_dt(ch, pw, ret) ==
  IF ret = 0 THEN [duty EXCEPT ![ch] = pw] ELSE duty

\* return values a duty-cycle write can produce
PwmRets == {0, -1}

\* where fade_led returns to: main.c:143 after the fade-in, :149 after the fade-out
fade_return_pc(fin) == IF fin THEN "hold" ELSE "advance"

\* ---- initial states ----------------------------------------------------
InitRest ==
  /\ ready \in [Leds -> BOOLEAN]
  /\ duty \in [Leds -> {0, period}]
  /\ pc = "start"
  /\ i = 0
  /\ current_led \in Leds
  /\ led_spec = 0
  /\ fade_in = FALSE
  /\ step = 0
  /\ console = [msg |-> "none", arg |-> 0]
  /\ main_ret = {}
  /\ fade_ret = {}
  /\ slept = 0
  /\ last_write = NoWrite
  /\ call_writes = 0
  /\ call_sleeps = 0
  /\ call_failed = FALSE
  /\ fade_failed = FALSE
  /\ cyc = 0
  /\ ramped = [c \in Leds |-> 0]
  /\ brightness = 0
  /\ off_failed = FALSE
  /\ delayed = FALSE
  /\ call_trace = << >>
  /\ in_trace = << >>

Init ==
  /\ period = PWM_PERIOD_US
  /\ fade_steps = FADE_STEPS
  /\ InitRest

InitAny ==
  /\ period \in Periods
  /\ fade_steps \in StepCounts
  /\ InitRest

\* set_led_brightness(pwm_leds[led_spec], brightness) is about to be called
InitBrightness ==
  /\ period = PWM_PERIOD_US
  /\ fade_steps = FADE_STEPS
  /\ ready = [c \in Leds |-> TRUE]
  /\ duty \in [Leds -> {0, period}]
  /\ pc = "set_brightness"
  /\ i = 0
  /\ current_led = 0
  /\ led_spec \in Leds
  /\ brightness \in 0 .. UINT8_MAX
  /\ fade_in = FALSE
  /\ step = 0
  /\ console = [msg |-> "none", arg |-> 0]
  /\ main_ret = {}
  /\ fade_ret = {}
  /\ slept = 0
  /\ last_write = NoWrite
  /\ call_writes = 0
  /\ call_sleeps = 0
  /\ call_failed = FALSE
  /\ fade_failed = FALSE
  /\ cyc = 0
  /\ ramped = [c \in Leds |-> 0]
  /\ off_failed = FALSE
  /\ delayed = FALSE
  /\ call_trace = << >>
  /\ in_trace = << >>

\* ---- main: startup -----------------------------------------------------
Banner ==
  /\ pc = "start"
  /\ console' = [msg |-> "banner", arg |-> 0]
  /\ i' = 0
  /\ pc' = "check"
  /\ UNCHANGED << cfgvars, histvars, callvars, duty, current_led, main_ret,
                  slept, last_write, fade_failed, off_failed, delayed,
                  in_trace >>

\* wrong variant: an unready device is reported but startup goes on
CheckReady_noreturn ==
  /\ pc = "check"
  /\ console' = IF ready[i] THEN [msg |-> "ready", arg |-> i]
                ELSE [msg |-> "not_ready", arg |-> i]
  /\ i' = IF i + 1 < NUM_LEDS THEN i + 1 ELSE 0
  /\ pc' = IF i + 1 < NUM_LEDS THEN "check" ELSE "turn_off"
  /\ UNCHANGED << cfgvars, histvars, callvars, duty, current_led, main_ret,
                  slept, last_write, fade_failed, off_failed, delayed,
                  in_trace >>

CheckReady ==
  /\ pc = "check"
  /\ IF ~ready[i]
       THEN /\ console' = [msg |-> "not_ready", arg |-> i]
            /\ main_ret' = {-1}
            /\ pc' = "exited"
            /\ i' = i
       ELSE /\ console' = [msg |-> "ready", arg |-> i]
            /\ main_ret' = main_ret
            /\ i' = IF i + 1 < NUM_LEDS THEN i + 1 ELSE 0
            /\ pc' = IF i + 1 < NUM_LEDS THEN "check" ELSE "turn_off"
  /\ UNCHANGED << cfgvars, histvars, callvars, duty, current_led, slept,
                  last_write, fade_failed, off_failed, delayed, in_trace >>

\* wrong variant: the zeroing loop leaves out the last channel
TurnOffAllLeds_skiplast ==
  /\ pc = "turn_off"
  /\ \E ret \in PwmRets :
       /\ duty' = pwm_set_dt(i, 0, ret)
       /\ last_write' = [site |-> "turn_off", ch |-> i, period |-> period,
                         pulse |-> 0, ret |-> ret, step |-> 0,
                         fade_in |-> FALSE]
       /\ off_failed' = (off_failed \/ ret < 0)
  /\ delayed' = FALSE
  /\ i' = i + 1
  /\ pc' = IF i + 1 < NUM_LEDS - 1 THEN "turn_off" ELSE "decl"
  /\ UNCHANGED << cfgvars, histvars, callvars, current_led, console,
                  main_ret, slept, fade_failed, in_trace >>

\* one iteration of turn_off_all_leds; the result of the write is dropped
TurnOffAllLeds ==
  /\ pc = "turn_off"
  /\ \E ret \in PwmRets :
       /\ duty' = pwm_set_dt(i, 0, ret)
       /\ last_write' = [site |-> "turn_off", ch |-> i, period |-> period,
                         pulse |-> 0, ret |-> ret, step |-> 0,
                         fade_in |-> FALSE]
       /\ off_failed' = (off_failed \/ ret < 0)
  /\ delayed' = FALSE
  /\ i' = i + 1
  /\ pc' = IF i + 1 < NUM_LEDS THEN "turn_off" ELSE "decl"
  /\ UNCHANGED << cfgvars, histvars, callvars, current_led, console,
                  main_ret, slept, fade_failed, in_trace >>

DeclCurrentLed ==
  /\ pc = "decl"
  /\ current_led' = 0
  /\ pc' = "loop_top"
  /\ UNCHANGED << cfgvars, histvars, callvars, duty, i, console, main_ret,
                  slept, last_write, fade_failed, off_failed, delayed,
                  in_trace >>

\* ---- fade_led ----------------------------------------------------------
\* call fade_led(pwm_leds[ch], fin): step = 0 and the first loop test
FadeCall(ch, fin) ==
  /\ led_spec' = ch
  /\ fade_in' = fin
  /\ step' = 0
  /\ call_writes' = 0
  /\ call_sleeps' = 0
  /\ call_failed' = FALSE
  /\ call_trace' = << >>
  /\ IF fade_loop_cond(0, fade_steps)
       THEN pc' = "fade_write" /\ fade_ret' = fade_ret
       ELSE pc' = fade_return_pc(fin) /\ fade_ret' = {}

\* wrong variant: no step delay after the write of the last step
FadeWrite_nolastsleep ==
  /\ pc = "fade_write"
  /\ \E ret \in PwmRets :
       /\ ret < 0 => step <= MaxFailStep
       /\ LET pw == fade_pulse_width(period, fade_steps, step, fade_in) IN
            /\ duty' = pwm_set_dt(led_spec, pw, ret)
            /\ last_write' = [site |-> "fade", ch |-> led_spec,
                              period |-> period, pulse |-> pw, ret |-> ret,
                              step |-> step, fade_in |-> fade_in]
            /\ call_trace' = Append(call_trace, pw)
       /\ call_writes' = call_writes + 1
       /\ IF ret < 0
            THEN /\ console' = [msg |-> "pwm_error", arg |-> ret]
                 /\ call_failed' = TRUE
                 /\ fade_failed' = TRUE
                 /\ fade_ret' = {}
                 /\ pc' = fade_return_pc(fade_in)
            ELSE /\ console' = console
                 /\ call_failed' = call_failed
                 /\ fade_failed' = fade_failed
                 /\ fade_ret' = IF step = fade_steps THEN {} ELSE fade_ret
                 /\ pc' = IF step = fade_steps THEN fade_return_pc(fade_in)
                                               ELSE "fade_sleep"
  /\ delayed' = FALSE
  /\ UNCHANGED << cfgvars, histvars, i, current_led, led_spec, fade_in, step,
                  main_ret, slept, call_sleeps, off_failed, in_trace >>

FadeWrite ==
  /\ pc = "fade_write"
  /\ \E ret \in PwmRets :
       /\ ret < 0 => step <= MaxFailStep
       /\ LET pw == fade_pulse_width(period, fade_steps, step, fade_in) IN
            /\ duty' = pwm_set_dt(led_spec, pw, ret)
            /\ last_write' = [site |-> "fade", ch |-> led_spec,
                              period |-> period, pulse |-> pw, ret |-> ret,
                              step |-> step, fade_in |-> fade_in]
            /\ call_trace' = Append(call_trace, pw)
       /\ call_writes' = call_writes + 1
       /\ IF ret < 0
            THEN /\ console' = [msg |-> "pwm_error", arg |-> ret]
                 /\ call_failed' = TRUE
                 /\ fade_failed' = TRUE
                 /\ fade_ret' = {}
                 /\ pc' = fade_return_pc(fade_in)
            ELSE /\ console' = console
                 /\ call_failed' = call_failed
                 /\ fade_failed' = fade_failed
                 /\ fade_ret' = fade_ret
                 /\ pc' = "fade_sleep"
  /\ delayed' = FALSE
  /\ UNCHANGED << cfgvars, histvars, i, current_led, led_spec, fade_in, step,
                  main_ret, slept, call_sleeps, off_failed, in_trace >>

FadeSleep ==
  /\ pc = "fade_sleep"
  /\ slept' = FADE_STEP_MS
  /\ call_sleeps' = call_sleeps + 1
  /\ step' = step + 1
  /\ IF fade_loop_cond(step + 1, fade_steps)
       THEN pc' = "fade_write" /\ fade_ret' = fade_ret
       ELSE pc' = fade_return_pc(fade_in) /\ fade_ret' = {}
  /\ delayed' = TRUE
  /\ UNCHANGED << cfgvars, histvars, duty, i, current_led, led_spec, fade_in,
                  console, main_ret, last_write, call_writes, call_failed,
                  fade_failed, off_failed, call_trace, in_trace >>

\* ---- main: the cycling loop --------------------------------------------
LoopTop ==
  /\ pc = "loop_top"
  /\ console' = [msg |-> "fading", arg |-> current_led]
  /\ FadeCall(current_led, TRUE)
  /\ IF cyc = NUM_LEDS
       THEN cyc' = 0 /\ ramped' = [c \in Leds |-> 0]
       ELSE UNCHANGED histvars
  /\ UNCHANGED << cfgvars, duty, i, current_led, main_ret, slept, last_write,
                  fade_failed, off_failed, delayed, in_trace >>

\* wrong variant: the fade-out is started on the next channel
Hold_other ==
  /\ pc = "hold"
  /\ slept' = HOLD_MS
  /\ delayed' = TRUE
  /\ in_trace' = call_trace
  /\ FadeCall((current_led + 1) % NUM_LEDS, FALSE)
  /\ UNCHANGED << cfgvars, histvars, duty, i, current_led, console, main_ret,
                  last_write, fade_failed, off_failed >>

Hold ==
  /\ pc = "hold"
  /\ slept' = HOLD_MS
  /\ delayed' = TRUE
  /\ in_trace' = call_trace
  /\ FadeCall(current_led, FALSE)
  /\ UNCHANGED << cfgvars, histvars, duty, i, current_led, console, main_ret,
                  last_write, fade_failed, off_failed >>

\* wrong variant: the index skips a channel
Advance_skip ==
  /\ pc = "advance"
  /\ current_led' = (current_led + 2) % NUM_LEDS
  /\ cyc' = cyc + 1
  /\ ramped' = [ramped EXCEPT ![current_led] = @ + 1]
  /\ pc' = "pause"
  /\ in_trace' = << >>
  /\ UNCHANGED << cfgvars, callvars, duty, i, console, main_ret, slept,
                  last_write, fade_failed, off_failed, delayed >>

\* wrong variant: the index is never moved
Advance_stuck ==
  /\ pc = "advance"
  /\ current_led' = current_led
  /\ cyc' = IF cyc < NUM_LEDS THEN cyc + 1 ELSE cyc
  /\ ramped' = ramped
  /\ pc' = "pause"
  /\ in_trace' = << >>
  /\ UNCHANGED << cfgvars, callvars, duty, i, console, main_ret, slept,
                  last_write, fade_failed, off_failed, delayed >>

Advance ==
  /\ pc = "advance"
  /\ current_led' = (current_led + 1) % NUM_LEDS
  /\ cyc' = cyc + 1
  /\ ramped' = [ramped EXCEPT ![current_led] = @ + 1]
  /\ pc' = "pause"
  /\ in_trace' = << >>
  /\ UNCHANGED << cfgvars, callvars, duty, i, console, main_ret, slept,
                  last_write, fade_failed, off_failed, delayed >>

Pause ==
  /\ pc = "pause"
  /\ slept' = PAUSE_MS
  /\ pc' = "loop_top"
  /\ delayed' = TRUE
  /\ UNCHANGED << cfgvars, histvars, callvars, duty, i, current_led, console,
                  main_ret, last_write, fade_failed, off_failed, in_trace >>

\* ---- set_led_brightness (not called by main) ---------------------------
SetLedBrightness ==
  /\ pc = "set_brightness"
  /\ \E ret \in PwmRets :
       LET pw == (period * brightness) \div PERCENT IN
         /\ duty' = pwm_set_dt(led_spec, pw, ret)
         /\ last_write' = [site |-> "brightness", ch |-> led_spec,
                           period |-> period, pulse |-> pw, ret |-> ret,
                           step |-> 0, fade_in |-> FALSE]
         /\ call_trace' = << pw >>
         /\ call_failed' = (ret < 0)
         /\ console' = IF ret < 0
                         THEN [msg |-> "brightness_error", arg |-> ret]
                         ELSE console
  /\ call_writes' = 1
  /\ call_sleeps' = 0
  /\ delayed' = FALSE
  /\ pc' = "brightness_done"
  /\ UNCHANGED << cfgvars, histvars, i, current_led, led_spec, fade_in, step,
                  main_ret, fade_ret, slept, fade_failed, off_failed,
                  in_trace >>

NextBrightness == SetLedBrightness

\* one call of set_led_brightness with any channel and any uint8_t brightness
SpecBrightness == InitBrightness /\ [][NextBrightness]_vars

Next ==
  \/ Banner
  \/ CheckReady
  \/ TurnOffAllLeds
  \/ DeclCurrentLed
  \/ LoopTop
  \/ FadeWrite
  \/ FadeSleep
  \/ Hold
  \/ Advance
  \/ Pause

\* the program as built
Spec == Init /\ [][Next]_vars

\* the program as built, scheduled: the single thread always takes its next
\* step (driver calls return, k_msleep wakes up)
SpecLive == Init /\ [][Next]_vars /\ WF_vars(Next)

\* the program built with any period in Periods and step count in StepCounts
SpecAny == InitAny /\ [][Next]_vars

TypeOK ==
  /\ period \in Periods
  /\ fade_steps \in StepCounts
  /\ duty \in [Leds -> 0 .. period]
  /\ pc \in {"start", "check", "turn_off", "decl", "loop_top", "fade_write",
             "fade_sleep", "hold", "advance", "pause", "exited"}
  /\ current_led \in Leds
  /\ led_spec \in Leds
  /\ step \in 0 .. (fade_steps + 1)
  /\ cyc \in 0 .. NUM_LEDS

\* ---- properties ---------------------------------------------------------
ReturnPcs == {"hold", "advance"}
FadePcs == {"fade_write", "fade_sleep"}

\* fade_led has returned to main and main has not moved on yet
FadeReturned == pc \in ReturnPcs

\* C1: when a duty-cycle write fails during the fade-in or the fade-out, the
\* cycling loop halts at that channel: no further duty-cycle write is issued
\* and current_led is never advanced again.
C1_FailStopHaltsCycle ==
  [][fade_failed => (last_write' = last_write /\ current_led' = current_led)]_vars

\* the part of C2 that concerns fade_led alone: the failed write is the last
\* write of the call, it is issued once, and no step delay follows it
C2_AbortsRamp ==
  (FadeReturned /\ call_failed) =>
    /\ last_write.site = "fade"
    /\ last_write.ret < 0
    /\ last_write.step = step
    /\ last_write.ch = led_spec
    /\ call_writes = step + 1
    /\ call_sleeps = step

\* C2: if the write at step k fails, no write for a later step is issued in
\* that call, the failed step is not retried, no step delay follows the failed
\* write, and the error is handed to the caller of fade_led.
C2_FailedStepAbortsAndSurfaces ==
  /\ C2_AbortsRamp
  /\ (FadeReturned /\ call_failed) => fade_ret # {}

\* first channel of the list that is not ready (NUM_LEDS when all are)
FirstNotReady ==
  IF \A c \in Leds : ready[c] THEN NUM_LEDS
  ELSE CHOOSE c \in Leds : ~ready[c] /\ \A d \in Leds : d < c => ready[d]

LoopEntered ==
  pc = "fade_write" /\ fade_in /\ step = 0 /\ last_write.site = "turn_off"

\* C4: whenever the cycling loop is entered, every channel has duty cycle 0,
\* whatever the outcome of the zeroing writes of turn_off_all_leds.
C4_AllOffAtLoopEntry ==
  LoopEntered => \A c \in Leds : duty[c] = 0

\* C5: a ramp call in which no write fails issues exactly fade_steps + 1
\* writes, the k-th of them for step index k - 1, each with the fixed period
\* and on the channel passed to the call.
C5_RampWriteCount ==
  /\ (pc \in FadePcs \cup ReturnPcs /\ call_writes >= 1) =>
       /\ last_write.site = "fade"
       /\ last_write.ch = led_spec
       /\ last_write.fade_in = fade_in
       /\ last_write.period = period
       /\ last_write.step = call_writes - 1
  /\ pc = "fade_write" => call_writes = step
  /\ (FadeReturned /\ ~call_failed) =>
       /\ call_writes = fade_steps + 1
       /\ last_write.step = fade_steps

C5_Witness ==
  /\ pc = "advance"
  /\ ~call_failed
  /\ call_writes = FADE_STEPS + 1
  /\ led_spec = NUM_LEDS - 1

\* q is floor(n / d)
IsFloor(q, n, d) == q * d <= n /\ n < (q + 1) * d

\* C6: at every step s the pulse width written is floor(period * s / steps)
\* for a fade-in and floor(period * (steps - s) / steps) for a fade-out,
\* whatever was written before; period 1000 with 3 steps gives 0, 333, 666,
\* 1000 and with 100 steps 0, 10, 20, ..., 1000.
C6_PulseWidthFormula ==
  last_write.site = "fade" =>
    LET s == last_write.step
        pw == last_write.pulse
    IN  /\ last_write.fade_in => IsFloor(pw, period * s, fade_steps)
        /\ ~last_write.fade_in =>
             IsFloor(pw, period * (fade_steps - s), fade_steps)
        /\ (last_write.fade_in /\ period = 1000 /\ fade_steps = 3) =>
             pw = << 0, 333, 666, 1000 >>[s + 1]
        /\ (last_write.fade_in /\ period = 1000 /\ fade_steps = 100) =>
             pw = 10 * s

C6_Witness ==
  /\ last_write.site = "fade"
  /\ last_write.fade_in
  /\ period = 1000 /\ fade_steps = 3
  /\ last_write.step = 2 /\ last_write.pulse = 666
  /\ duty[last_write.ch] = 666

\* C7: a fade-in writes 0 at step 0 and period at the last step, a fade-out
\* period at step 0 and 0 at the last step; after a ramp without a failed
\* write the channel is at period (fade-in) or at 0 (fade-out).
C7_EndpointsExact ==
  /\ (last_write.site = "fade" /\ last_write.step = 0) =>
       last_write.pulse = IF last_write.fade_in THEN 0 ELSE period
  /\ (last_write.site = "fade" /\ last_write.step = fade_steps) =>
       last_write.pulse = IF last_write.fade_in THEN period ELSE 0
  /\ (FadeReturned /\ ~call_failed) =>
       duty[led_spec] = IF fade_in THEN period ELSE 0

C7_Witness ==
  /\ pc = "hold"
  /\ ~call_failed
  /\ period = MaxPeriod /\ fade_steps = MaxSteps
  /\ duty[led_spec] = period

\* C8: every pulse width passed to a duty-cycle write, by the ramp and by the
\* startup zeroing, is within 0 .. period.
C8_PulseWithinPeriod ==
  last_write # NoWrite =>
    /\ last_write.period = period
    /\ 0 <= last_write.pulse
    /\ last_write.pulse <= last_write.period

C8_Witness ==
  /\ last_write.site = "fade"
  /\ last_write.fade_in
  /\ last_write.step = fade_steps
  /\ last_write.pulse = period
  /\ last_write.ret = 0

\* C9: within one ramp call each write's pulse width is >= (fade-in) or
\* <= (fade-out) that of the previous write of the call, also when the call
\* is cut short by a failure.
C9_RampMonotone ==
  [][(pc = "fade_write" /\ call_writes >= 1 /\ call_writes' = call_writes + 1)
       => IF fade_in THEN last_write'.pulse >= last_write.pulse
                     ELSE last_write'.pulse <= last_write.pulse]_vars

C9_Witness ==
  /\ FadeReturned
  /\ call_failed
  /\ ~fade_in
  /\ call_writes >= 2
  /\ last_write.ret < 0
  /\ last_write.pulse < period

\* C10: current_led starts at 0, selects a channel of the list whenever it is
\* used, changes only in the advance step, to (current_led + 1) mod NUM_LEDS,
\* and after NUM_LEDS cycles it is back at 0 with every channel having been
\* taken through the in/hold/out cycle exactly once.
C10_IndexCycles ==
  /\ [](pc = "loop_top" /\ cyc = 0 => current_led = 0)
  /\ [](pc \in FadePcs \cup ReturnPcs =>
          current_led \in Leds /\ led_spec = current_led)
  /\ [][current_led' # current_led =>
          \/ pc = "decl" /\ current_led' = 0
          \/ pc = "advance" /\ current_led' = (current_led + 1) % NUM_LEDS]_vars
  /\ [](cyc = NUM_LEDS =>
          current_led = 0 /\ \A c \in Leds : ramped[c] = 1)

C10_Witness ==
  /\ pc = "pause"
  /\ cyc = NUM_LEDS
  /\ current_led = 0
  /\ \A c \in Leds : ramped[c] = 1

LoopPcs == {"loop_top", "fade_write", "fade_sleep", "hold", "advance", "pause"}

\* C11: once the loop has been entered every duty-cycle write targets
\* pwm_leds[current_led]: no step of a cycle changes the duty cycle of another
\* channel, and the fade-in and the fade-out of a cycle act on the same channel
\* (current_led does not change between them).
C11_OnlyCurrentChannelWritten ==
  /\ [][(pc \in LoopPcs) =>
          \A c \in Leds : c # current_led => (duty'[c] = duty[c])]_vars
  /\ [][(pc = "fade_write" /\ last_write' # last_write) =>
          last_write'.ch = current_led]_vars
  /\ [][(pc \in {"fade_write", "fade_sleep", "hold"}) =>
          (current_led' = current_led /\ led_spec' = current_led)]_vars
  /\ [](pc \in FadePcs \cup ReturnPcs => led_spec = current_led)

C11_Witness ==
  /\ pc = "advance"
  /\ ~call_failed
  /\ current_led = 1
  /\ last_write.ch = 1
  /\ Len(in_trace) = FADE_STEPS + 1
  /\ duty[0] > 0
  /\ duty[2] = PWM_PERIOD_US

\* C12: whenever the cycler is in its hold delay the duty cycle of
\* pwm_leds[current_led] is exactly the period.
C12_HoldAtFullBrightness ==
  pc = "hold" => duty[current_led] = period

AllReady == \A c \in Leds : ready[c]
NoWriteFailed == ~fade_failed /\ ~off_failed

\* C13: after a successful startup and as long as no duty-cycle write fails,
\* the loop never stops: every phase (fade-in, hold, fade-out, advance) recurs
\* forever and every channel is selected for a fade-in again and again.
C13_LoopRunsForever ==
  (AllReady /\ []NoWriteFailed) =>
    /\ \A c \in Leds :
         []<>(pc = "fade_write" /\ fade_in /\ step = 0 /\ led_spec = c)
    /\ []<>(pc = "hold")
    /\ []<>(pc = "fade_write" /\ ~fade_in)
    /\ []<>(pc = "advance")

C13_Witness ==
  /\ NoWriteFailed
  /\ pc = "fade_write" /\ fade_in /\ step = 0
  /\ led_spec = 0
  /\ last_write.site = "fade"
  /\ last_write.ch = NUM_LEDS - 1
  /\ cyc = 0

\* C14: if a runtime error occurs (a device not ready at startup, or a failed
\* duty-cycle write during a fade) the sample exits, and nothing about the
\* error is printed to the console: no error line is ever the last line
\* printed, main has returned once a device was found not ready, and no new
\* fade_led call is started after a fade write has failed.
C14_ErrorExitsSilently ==
  /\ console.msg \notin {"not_ready", "pwm_error"}
  /\ (pc \notin {"start", "check"} /\ ~AllReady) => main_ret # {}
  /\ fade_failed => call_failed

\* C15: for the same period and step count, the pulse widths written by a
\* fade-out without failure are those written by the fade-in without failure,
\* in reverse order: the write of step s of the fade-out carries the pulse
\* width of step fade_steps - s of the fade-in.
C15_FadeOutReversesFadeIn ==
  (pc = "advance" /\ ~call_failed /\ Len(in_trace) = fade_steps + 1) =>
    /\ Len(call_trace) = fade_steps + 1
    /\ \A s \in 0 .. fade_steps :
         call_trace[s + 1] = in_trace[(fade_steps - s) + 1]

C15_Witness ==
  /\ pc = "advance"
  /\ ~call_failed
  /\ period = PWM_PERIOD_US /\ fade_steps = MaxSteps
  /\ Len(in_trace) = fade_steps + 1
  /\ in_trace[2] > 0
  /\ call_trace[fade_steps] = in_trace[2]

\* C16: provided every duty-cycle write succeeds, the startup zeroing writes
\* included, in every state of the loop at most one channel has a non-zero
\* duty cycle, that channel is pwm_leds[current_led], and when current_led is
\* advanced every channel is at duty cycle 0.
C16_OneChannelLit ==
  (NoWriteFailed /\ pc \in LoopPcs) =>
    /\ \A c \in Leds : duty[c] # 0 => c = current_led
    /\ pc \in {"advance", "pause", "loop_top"} => \A c \in Leds : duty[c] = 0

C16_Witness ==
  /\ NoWriteFailed
  /\ pc = "advance"
  /\ current_led = NUM_LEDS - 1
  /\ last_write.site = "fade"
  /\ \A c \in Leds : duty[c] = 0

FitsUint32(x) == x >= 0 /\ x \div 65536 < 65536

\* C18: with period 1000 and 100 steps, for every step the loop reaches, the
\* factor FADE_STEPS - step is not negative and the product PWM_PERIOD_US * step
\* (resp. PWM_PERIOD_US * (FADE_STEPS - step)) is below 2^32, so the pulse width
\* computed in uint32_t is the floor value of unbounded arithmetic.
C18_NoUint32Wrap ==
  /\ pc \in FadePcs =>
       /\ step >= 0
       /\ FADE_STEPS - step >= 0
       /\ FitsUint32(PWM_PERIOD_US * step)
       /\ FitsUint32(PWM_PERIOD_US * (FADE_STEPS - step))
  /\ last_write.site = "fade" =>
       LET s == last_write.step
           m == IF last_write.fade_in THEN s ELSE FADE_STEPS - s
       IN  /\ m >= 0
           /\ FitsUint32(PWM_PERIOD_US * m)
           /\ FitsUint32(last_write.pulse)
           /\ IsFloor(last_write.pulse, PWM_PERIOD_US * m, FADE_STEPS)

C18_Witness ==
  /\ last_write.site = "fade"
  /\ ~last_write.fade_in
  /\ last_write.step = FADE_STEPS
  /\ last_write.pulse = 0
  /\ pc = "fade_sleep"
  /\ Len(in_trace) = FADE_STEPS + 1
  /\ in_trace[FADE_STEPS + 1] = PWM_PERIOD_US

\* the part of C19 that holds: one write on the channel passed, with pulse
\* width floor(period * brightness / 100); a failed write is reported and
\* changes no duty cycle; within 0 .. period when brightness is a percentage
C19_BrightnessWriteOnce ==
  pc = "brightness_done" =>
    /\ call_writes = 1
    /\ last_write.site = "brightness"
    /\ last_write.ch = led_spec
    /\ last_write.period = period
    /\ IsFloor(last_write.pulse, period * brightness, PERCENT)
    /\ brightness = 0 => last_write.pulse = 0
    /\ brightness = PERCENT => last_write.pulse = period
    /\ brightness <= PERCENT => last_write.pulse \in 0 .. period
    /\ last_write.ret < 0 =>
         /\ console.msg = "brightness_error"
         /\ duty \in [Leds -> {0, period}]
    /\ \A c \in Leds : c # led_spec => duty[c] \in {0, period}
    /\ slept = 0 /\ main_ret = {} /\ current_led = 0

====
